---- MODULE Spec2Model ----
(***************************************************************************)
(* Model of the test_liquidation Anchor program                            *)
(* (programs/test-liquidation/src/lib.rs): two instruction handlers,       *)
(* create_risky_position and liquidate, over Position accounts.            *)
(*                                                                         *)
(* The host runtime serializes the requests that touch an account, so one  *)
(* request is one atomic step.  A request that returns an error leaves     *)
(* every account as it was (the runtime discards the writes of a failed    *)
(* transaction).                                                           *)
(***************************************************************************)
EXTENDS Integers, FiniteSets, Sequences, TLC

----------------------------------------------------------------------------
(* Bounds of the model *)

\* number of signing identities (creators / liquidators)
NumUsers == 2
\* number of addresses at which a Position account may be allocated
NumAccounts == 2
\* number of Position accounts a user's starting balance can fund
MaxFunded == 1

----------------------------------------------------------------------------
(* Identities and constants of the program *)

Users == 1..NumUsers
Accounts == {NumUsers + i : i \in 1..NumAccounts}

\* Pubkey::default(), the owner field of an account that holds no Position
NoKey == 0

\* lib.rs:13  position.collateral_amount = 100_000_000
CollateralAtCreation == 100000000
\* lib.rs:14  position.borrowed_amount = 200_000_000
BorrowedAtCreation == 200000000

\* lib.rs:37  space = 8 + 32 + 8 + 8
Space == 8 + 32 + 8 + 8

\* The balance the host requires the payer to move into an account of the
\* given size when `init` allocates it (one unit per byte in this model).
RentExemptMinimum(space) == space

InitialLamports == MaxFunded * RentExemptMinimum(Space)

\* lib.rs:52-57  struct Position, preceded by the 8-byte discriminator that
\* tells an allocated Position account from an address holding nothing.
Position(owner, collateral, borrowed) ==
    [initialized       |-> TRUE,
     owner             |-> owner,
     collateral_amount |-> collateral,
     borrowed_amount   |-> borrowed]

Unallocated ==
    [initialized       |-> FALSE,
     owner             |-> NoKey,
     collateral_amount |-> 0,
     borrowed_amount   |-> 0]

\* lib.rs:59-63  enum LiquidationError
NotLiquidatable == "NotLiquidatable"

----------------------------------------------------------------------------
(* State *)

VARIABLES
    position,    \* address -> the account data stored there
    lamports,    \* identity or address -> balance
    result,      \* the last request the host executed, and its outcome
    created,     \* address -> number of successful create_risky_position
    liquidated   \* address -> number of successful liquidate

vars == <<position, lamports, result, created, liquidated>>

NoRequest == [op |-> "none", account |-> NoKey, signer |-> NoKey, status |-> "none"]

Request(op, a, s, status) ==
    [op |-> op, account |-> a, signer |-> s, status |-> status]

----------------------------------------------------------------------------
(* Instruction handlers *)

\* mutant: the two constants written the other way round
create_risky_position_swapped(ctx) ==
    [status   |-> "Ok",
     position |-> [ctx.position EXCEPT
                      !.collateral_amount = BorrowedAtCreation,
                      !.borrowed_amount   = CollateralAtCreation,
                      !.owner             = ctx.user]]

\* mutant: the owner field is left as allocated
create_risky_position_noowner(ctx) ==
    [status   |-> "Ok",
     position |-> [ctx.position EXCEPT
                      !.collateral_amount = CollateralAtCreation,
                      !.borrowed_amount   = BorrowedAtCreation]]

\* lib.rs:9-18
create_risky_position(ctx) ==
    [status   |-> "Ok",
     position |-> [ctx.position EXCEPT
                      !.collateral_amount = CollateralAtCreation,
                      !.borrowed_amount   = BorrowedAtCreation,
                      !.owner             = ctx.user]]

\* mutant: only the collateral is zeroed
liquidate_keepdebt(ctx) ==
    IF ctx.position.borrowed_amount > ctx.position.collateral_amount
    THEN [status   |-> "Ok",
          position |-> [ctx.position EXCEPT !.collateral_amount = 0]]
    ELSE [status |-> NotLiquidatable, position |-> ctx.position]

\* mutant: >= in place of >
liquidate_ge(ctx) ==
    IF ctx.position.borrowed_amount >= ctx.position.collateral_amount
    THEN [status   |-> "Ok",
          position |-> [ctx.position EXCEPT
                           !.collateral_amount = 0,
                           !.borrowed_amount   = 0]]
    ELSE [status |-> NotLiquidatable, position |-> ctx.position]

\* mutant: the check is made after the writes
liquidate_checklate(ctx) ==
    IF ctx.position.borrowed_amount > ctx.position.collateral_amount
          \/ ctx.position.borrowed_amount = 0
    THEN [status   |-> "Ok",
          position |-> [ctx.position EXCEPT
                           !.collateral_amount = 0,
                           !.borrowed_amount   = 0]]
    ELSE [status |-> NotLiquidatable, position |-> ctx.position]

\* mutant: the liquidator takes the position over
liquidate_takeover(ctx) ==
    IF ctx.position.borrowed_amount > ctx.position.collateral_amount
    THEN [status   |-> "Ok",
          position |-> [ctx.position EXCEPT
                           !.collateral_amount = 0,
                           !.borrowed_amount   = 0,
                           !.owner             = ctx.liquidator]]
    ELSE [status |-> NotLiquidatable, position |-> ctx.position]

\* mutant: only the owner may liquidate
liquidate_owneronly(ctx) ==
    IF ctx.position.borrowed_amount > ctx.position.collateral_amount
          /\ ctx.liquidator = ctx.position.owner
    THEN [status   |-> "Ok",
          position |-> [ctx.position EXCEPT
                           !.collateral_amount = 0,
                           !.borrowed_amount   = 0]]
    ELSE [status |-> NotLiquidatable, position |-> ctx.position]

\* lib.rs:20-29
liquidate(ctx) ==
    IF ctx.position.borrowed_amount > ctx.position.collateral_amount
    THEN [status   |-> "Ok",
          position |-> [ctx.position EXCEPT
                           !.collateral_amount = 0,
                           !.borrowed_amount   = 0]]
    ELSE [status |-> NotLiquidatable, position |-> ctx.position]

----------------------------------------------------------------------------
(* Account constraints, enforced by the host before the handler runs *)

\* mutant: init_if_needed in place of init
CreatePosition_init_if_needed(account, payerLamports) ==
    IF account.initialized THEN "Ok"
    ELSE IF payerLamports < RentExemptMinimum(Space) THEN "InsufficientFunds"
    ELSE "Ok"

\* lib.rs:32-43  #[account(init, payer = user, space = ...)]
CreatePosition_init(account, payerLamports) ==
    IF account.initialized THEN "AccountAlreadyInUse"
    ELSE IF payerLamports < RentExemptMinimum(Space) THEN "InsufficientFunds"
    ELSE "Ok"

\* lib.rs:45-50  position: Account<'info, Position> must hold a Position
Liquidate_account(account) ==
    IF account.initialized THEN "Ok" ELSE "AccountNotInitialized"

----------------------------------------------------------------------------
(* Requests *)

Fail(op, a, s, status) ==
    /\ result' = Request(op, a, s, status)
    /\ UNCHANGED <<position, lamports, created, liquidated>>

CreateRiskyPosition(a, u) ==
    LET check == CreatePosition_init(position[a], lamports[u])
        paid  == IF position[a].initialized THEN 0 ELSE RentExemptMinimum(Space)
        fresh == [position[a] EXCEPT !.initialized = TRUE]
        out   == create_risky_position([position |-> fresh, user |-> u])
    IN  IF check # "Ok"
        THEN Fail("create", a, u, check)
        ELSE /\ position' = [position EXCEPT ![a] = out.position]
             /\ lamports' = [lamports EXCEPT ![u] = @ - paid, ![a] = @ + paid]
             /\ created' = [created EXCEPT ![a] = @ + 1]
             /\ result' = Request("create", a, u, out.status)
             /\ UNCHANGED liquidated

\* mutant: a successful liquidation closes the account
LiquidateAndClose(a, l) ==
    LET check == Liquidate_account(position[a])
        out   == liquidate([position |-> position[a], liquidator |-> l])
    IN  IF check # "Ok"
        THEN Fail("liquidate", a, l, check)
        ELSE IF out.status # "Ok"
        THEN Fail("liquidate", a, l, out.status)
        ELSE /\ position' = [position EXCEPT ![a] = Unallocated]
             /\ liquidated' = [liquidated EXCEPT ![a] = @ + 1]
             /\ result' = Request("liquidate", a, l, out.status)
             /\ UNCHANGED <<lamports, created>>

Liquidate(a, l) ==
    LET check == Liquidate_account(position[a])
        out   == liquidate([position |-> position[a], liquidator |-> l])
    IN  IF check # "Ok"
        THEN Fail("liquidate", a, l, check)
        ELSE IF out.status # "Ok"
        THEN Fail("liquidate", a, l, out.status)
        ELSE /\ position' = [position EXCEPT ![a] = out.position]
             /\ liquidated' = [liquidated EXCEPT ![a] = @ + 1]
             /\ result' = Request("liquidate", a, l, out.status)
             /\ UNCHANGED <<lamports, created>>

----------------------------------------------------------------------------
(* Specifications *)

\* the program as deployed: no Position account exists yet
Init ==
    /\ position = [a \in Accounts |-> Unallocated]
    /\ lamports = [k \in Users \cup Accounts |->
                      IF k \in Users THEN InitialLamports ELSE 0]
    /\ result = NoRequest
    /\ created = [a \in Accounts |-> 0]
    /\ liquidated = [a \in Accounts |-> 0]

Next ==
    \/ \E a \in Accounts, u \in Users : CreateRiskyPosition(a, u)
    \/ \E a \in Accounts, l \in Users : Liquidate(a, l)

Spec == Init /\ [][Next]_vars

\* Field values the handlers are exercised on when a Position account is
\* taken as an input: zero and the two constants of the program, in every
\* combination (borrowed below, equal to and above collateral).
Amounts == {0, CollateralAtCreation, BorrowedAtCreation}

\* every Position account the deserializer accepts, at any address
InitAny ==
    /\ position \in [Accounts ->
                        {Unallocated} \cup
                        {Position(o, c, b) : o \in Users, c \in Amounts, b \in Amounts}]
    /\ lamports = [k \in Users \cup Accounts |->
                      IF k \in Users THEN InitialLamports
                      ELSE IF position[k].initialized
                           THEN RentExemptMinimum(Space) ELSE 0]
    /\ result = NoRequest
    /\ created = [a \in Accounts |-> IF position[a].initialized THEN 1 ELSE 0]
    /\ liquidated = [a \in Accounts |-> 0]

SpecAny == InitAny /\ [][Next]_vars

----------------------------------------------------------------------------
(* Properties *)

Amount(a) == <<position[a].collateral_amount, position[a].borrowed_amount>>
AmountNext(a) == <<position'[a].collateral_amount, position'[a].borrowed_amount>>

\* C1: a successful create_risky_position leaves, at the address it was
\* given, a Position with collateral_amount = 100_000_000, borrowed_amount =
\* 200_000_000 and owner = the signer of the request, whoever signs and
\* whatever the other accounts hold.
C1_CreateYieldsConstants ==
    (result.op = "create" /\ result.status = "Ok") =>
        position[result.account] =
            Position(result.signer, 100000000, 200000000)

C1_Witness ==
    /\ result.op = "create"
    /\ result.status = "Ok"
    /\ position[result.account].owner = result.signer
    /\ \E b \in Accounts : b # result.account /\ position[b].initialized

\* C2: a liquidate request on a Position with borrowed_amount >
\* collateral_amount returns Ok and leaves both amounts 0; a liquidate that
\* directly follows the successful create of the same account returns Ok.
C2_LiquidateZeroes ==
    [][ /\ \A a \in Accounts :
             ( /\ result'.op = "liquidate"
               /\ result'.account = a
               /\ position[a].initialized
               /\ position[a].borrowed_amount > position[a].collateral_amount )
             => ( /\ result'.status = "Ok"
                  /\ AmountNext(a) = <<0, 0>> )
        /\ ( /\ result.op = "create"
             /\ result.status = "Ok"
             /\ result'.op = "liquidate"
             /\ result'.account = result.account )
           => result'.status = "Ok"
      ]_vars

C2_Witness ==
    /\ result.op = "liquidate"
    /\ result.status = "Ok"
    /\ Amount(result.account) = <<0, 0>>
    /\ liquidated[result.account] = 1

\* C3: a liquidate request on a Position with borrowed_amount <=
\* collateral_amount returns NotLiquidatable and leaves owner,
\* collateral_amount and borrowed_amount as they were; a liquidate that
\* returns Ok was issued in a state with borrowed_amount > collateral_amount.
C3_NotLiquidatable ==
    [][ \A a \in Accounts :
          ( /\ result'.op = "liquidate"
            /\ result'.account = a
            /\ position[a].initialized )
          => ( /\ position[a].borrowed_amount <= position[a].collateral_amount
                  => ( /\ result'.status = NotLiquidatable
                       /\ position'[a] = position[a] )
               /\ result'.status = "Ok"
                  => position[a].borrowed_amount > position[a].collateral_amount )
      ]_vars

C3_Witness ==
    /\ result.op = "liquidate"
    /\ result.status = NotLiquidatable
    /\ position[result.account].borrowed_amount > 0
    /\ position[result.account].borrowed_amount
          <= position[result.account].collateral_amount

\* C4: after a Position has been liquidated successfully, every later
\* liquidate request on it, by any signer, returns NotLiquidatable.
C4_LiquidatedStaysRefused ==
    [][ \A a \in Accounts :
          ( /\ liquidated[a] >= 1
            /\ result'.op = "liquidate"
            /\ result'.account = a )
          => result'.status = NotLiquidatable
      ]_vars

C4_Witness ==
    /\ result.op = "liquidate"
    /\ result.status = NotLiquidatable
    /\ liquidated[result.account] = 1
    /\ \E b \in Accounts : b # result.account /\ created[b] = 1

\* C5: in every sequence of requests each address sees at most one
\* successful create_risky_position and at most one successful liquidate.
C5_AtMostOnce ==
    \A a \in Accounts : created[a] <= 1 /\ liquidated[a] <= 1

C5_Witness ==
    \E a \in Accounts :
        /\ created[a] = 1
        /\ liquidated[a] = 1
        /\ result.account = a
        /\ result.status \notin {"Ok", "none"}

\* C6: the owner of an existing Position is the same after every step, and
\* its two amounts differ after a step only when that step is a successful
\* liquidate of that Position, which sets both to 0.
C6_Immutable ==
    [][ \A a \in Accounts :
          position[a].initialized =>
             /\ position'[a].owner = position[a].owner
             /\ AmountNext(a) # Amount(a) =>
                   /\ result'.op = "liquidate"
                   /\ result'.account = a
                   /\ result'.status = "Ok"
                   /\ AmountNext(a) = <<0, 0>>
      ]_vars

C6_Witness ==
    /\ result.op = "create"
    /\ result.status = "AccountAlreadyInUse"
    /\ position[result.account].owner \in Users \ {result.signer}
    /\ Amount(result.account) = <<100000000, 200000000>>

\* C7: an address that holds a Position holds one after every step.
C7_NeverDeleted ==
    [][ \A a \in Accounts :
          position[a].initialized => position'[a].initialized ]_vars

C7_Witness ==
    \E a \in Accounts :
        /\ position[a].initialized
        /\ liquidated[a] = 1
        /\ result.op = "create"
        /\ result.account = a

\* C8: a successful liquidate credits to the signing liquidator the amount
\* by which the Position's collateral_amount went down.
C8_CollateralCredited ==
    [][ \A a \in Accounts :
          ( /\ result'.op = "liquidate"
            /\ result'.account = a
            /\ result'.status = "Ok" )
          => lamports'[result'.signer] =
                lamports[result'.signer]
                   + (position[a].collateral_amount - position'[a].collateral_amount)
      ]_vars

\* C9: every existing Position has (collateral_amount, borrowed_amount) =
\* (100_000_000, 200_000_000) or (0, 0); none has 0 < borrowed_amount <=
\* collateral_amount, and a request answered NotLiquidatable was made on a
\* Position that had already been liquidated.
C9_TwoShapes ==
    /\ \A a \in Accounts :
          position[a].initialized =>
             /\ Amount(a) \in {<<100000000, 200000000>>, <<0, 0>>}
             /\ ~ ( /\ 0 < position[a].borrowed_amount
                    /\ position[a].borrowed_amount <= position[a].collateral_amount )
    /\ result.status = NotLiquidatable =>
          /\ liquidated[result.account] >= 1
          /\ Amount(result.account) = <<0, 0>>

C9_Witness ==
    \E a, b \in Accounts :
        /\ position[a].initialized
        /\ position[b].initialized
        /\ Amount(a) = <<100000000, 200000000>>
        /\ Amount(b) = <<0, 0>>

\* C10: the status and the resulting record of a liquidate request are the
\* ones any other signer, the owner included, would have got on the same
\* Position.
C10_LiquidatorIrrelevant ==
    [][ \A a \in Accounts :
          ( /\ result'.op = "liquidate"
            /\ result'.account = a
            /\ position[a].initialized )
          => \A l \in Users :
                LET other == liquidate([position |-> position[a], liquidator |-> l])
                IN  /\ other.status = result'.status
                    /\ other.position = position'[a]
      ]_vars

C10_Witness ==
    /\ result.op = "liquidate"
    /\ result.status = "Ok"
    /\ position[result.account].owner \in Users \ {result.signer}

====
